---- MODULE Spec2Model ----
(***************************************************************************)
(* A model of expensify-os: the sliding-window RateLimiter                  *)
(* (expensify/rate_limiter.py), the paginated cost aggregator with the     *)
(* plugin's fetch_expense around it (plugins/anthropic.py,                 *)
(* plugins/openai.py), the submission client (expensify/client.py), the   *)
(* orchestrator loop of the `run` command (cli.py), the billing window of  *)
(* fetch_expense and validate_credentials of the two API plugins.          *)
(*                                                                         *)
(* Time is the integer reading of time.monotonic().  Two reads may return  *)
(* the same value (the clock is monotonic, not strictly increasing).  Only *)
(* differences of readings matter to the code, so once the clock reaches   *)
(* MaxTime the origin slides instead: every stored reading is lowered by   *)
(* one (never below 0).  MaxTime exceeds every window, so a reading that   *)
(* was floored at 0 is older than both windows, exactly as its true value. *)
(***************************************************************************)
EXTENDS Integers, Sequences, FiniteSets

\* ---------------------------------------------------------------- bounds
NumCalls == 3      \* acquire() calls issued, numbered in order of arrival
MaxLimit == 2      \* short_limit, long_limit are drawn from 0..MaxLimit
MaxWindow == 2     \* short_window, long_window are drawn from 1..MaxWindow

MaxPages == 3      \* a vendor's cost report has at most MaxPages pages

MinYear == 2023    \* a billing month is drawn from the years MinYear..MaxYear
MaxYear == 2027

MinStatus == 100   \* a vendor answers with a status in MinStatus..MaxStatus
MaxStatus == 599

Callers == 1..NumCalls
MaxTime == MaxWindow + 1

VARIABLES
    short_limit, short_window, long_limit, long_window,  \* RateLimiter config
    timestamps,     \* RateLimiter._timestamps, oldest first
    lockHolder,     \* the caller holding RateLimiter._lock, 0 when free
    lockWaiters,    \* FIFO of callers suspended in `async with self._lock`
    pc,             \* position of each acquire() call
    wakeAt,         \* clock reading at which a sleeping caller's sleep ends
    clock,          \* time.monotonic()
    admitted,       \* history: every admission ever recorded, never pruned
    waited          \* history: has this call ever suspended in asyncio.sleep

limiterVars == <<short_limit, short_window, long_limit, long_window, timestamps,
                 lockHolder, lockWaiters, pc, wakeAt, clock, admitted, waited>>

VARIABLES
    vendor,         \* which plugin runs: "anthropic", "openai" or "vodafone"
    dry_run,        \* fetch_expense's dry_run argument
    fpc,            \* position of the fetch_expense call
    attempt,        \* tenacity's attempt number of _fetch_total_cost
    total,          \* _fetch_total_cost's `total`, in units of 1/Scale
    page,           \* _fetch_total_cost's `page` cursor
    log,            \* history: requests and responses of the current attempt
    failures,       \* history: attempts of this call that ended in a failure
    gets,           \* history: GET requests sent by this call, all attempts
    aggResult,      \* <<n>> once _fetch_total_cost has returned n, else <<>>
    expense,        \* <<ExpenseData>> once fetch_expense has returned one
    error,          \* what fetch_expense raised, "" if nothing
    placeholderWritten,  \* the dry-run stand-in document has been written
    downloads,      \* number of _download_invoice invocations
    sessions,       \* history: BrowserSession contexts entered
    logins,         \* history: logins started in a browser page
    amount_cents,   \* <<n>> once Vodafone's _extract_amount has returned n
    delays,         \* history: seconds tenacity slept after each failed attempt
    cause           \* what made the attempt just ended fail, "" if nothing

browserVars == <<sessions, logins, amount_cents>>

pluginVars == <<vendor, dry_run, fpc, attempt, total, page, log, failures,
                gets, aggResult, expense, error, placeholderWritten, downloads,
                browserVars, delays, cause>>

VARIABLES
    entry,          \* the public method called on the ExpensifyClient
    receiptExists,  \* expense.receipt_path.exists()
    cpc,            \* position of that call
    acq,            \* which acquire() call of the limiter the client awaits
    argId,          \* upload_receipt's transaction_id argument
    posts,          \* history: every POST sent, with its response
    createResult,   \* <<r>> once create_expense has returned r
    transaction_id, \* submit_expense's transaction_id
    receiptResult,  \* <<r>> once upload_receipt has returned r
    result,         \* <<dict>> once submit_expense has returned
    cerror          \* what the call raised

clientVars == <<entry, receiptExists, cpc, acq, argId, posts, createResult,
                transaction_id, receiptResult, result, cerror>>

VARIABLES
    selected,       \* plugin_names
    run_dry,        \* the run's --dry-run flag
    rpc,            \* position of _run_async
    idx,            \* index in plugin_names of the plugin being processed
    fetched,        \* <<outcome>> while the fetched record is being submitted
    results,        \* the `results` list
    cleanups,       \* history: cleanup() invocations per plugin index
    submits,        \* history: submit_expense calls per plugin index
    instantiated,   \* history: indexes for which get_plugin returned
    exitStatus,     \* how the process ends
    limiters,       \* history: RateLimiter instances created by the run
    sentBefore      \* history: POSTs sentBefore by the clients already closed

runVars == <<selected, run_dry, rpc, idx, fetched, results, cleanups, submits,
             instantiated, exitStatus, limiters, sentBefore>>

\* the billing window of one fetch_expense call
VARIABLES
    wplugin,        \* name of the plugin whose fetch_expense is called
    year,           \* argument year
    month,          \* argument month
    wpc,            \* "off", "idle", "called", "done"
    start_date,     \* <<date>> passed to _fetch_total_cost as start_date
    end_date,       \* <<date>> passed to _fetch_total_cost as end_date
    date            \* <<date>> of the ExpenseData returned, <<>> if none

windowVars == <<wplugin, year, month, wpc, start_date, end_date, date>>

\* one validate_credentials call
VARIABLES
    vplugin,        \* name of the plugin whose credentials are validated
    vpc,            \* "off", "idle", "called", "returned", "raised"
    requests,       \* history: requests sent by the call
    answer,         \* <<outcome>> of the request
    valid           \* <<boolean>> returned

checkVars == <<vplugin, vpc, requests, answer, valid>>

vars == <<limiterVars, pluginVars, clientVars, runVars, windowVars, checkVars>>

Max(a, b) == IF a >= b THEN a ELSE b

\* ------------------------------------------------------------ RateLimiter

\* while self._timestamps and self._timestamps[0] < cutoff: popleft()
RECURSIVE PopWhileOlder(_, _)
PopWhileOlder(ts, cutoff) ==
    IF ts # <<>> /\ Head(ts) < cutoff
    THEN PopWhileOlder(Tail(ts), cutoff)
    ELSE ts

\* nothing is removed
PruneNothing(ts, now) == ts

\* _prune: cutoff = now - self.long_window
Prune(ts, now) == PopWhileOlder(ts, now - long_window)

\* sum(1 for t in self._timestamps if t >= short_cutoff)
ShortCount(ts, now) ==
    Cardinality({i \in DOMAIN ts : ts[i] >= now - short_window})

\* next(t for t in self._timestamps if t >= short_cutoff); the caller
\* guarantees that such a t exists
OldestInWindow(ts, now) ==
    LET first == CHOOSE i \in DOMAIN ts :
                     /\ ts[i] >= now - short_window
                     /\ \A j \in 1..(i - 1) : ts[j] < now - short_window
    IN  ts[first]

\* _wait_time raises when it looks for the oldest timestamp of an empty
\* selection: next() on an exhausted generator (StopIteration, surfacing from
\* the coroutine as RuntimeError) or self._timestamps[0] on an empty deque
\* (IndexError).  ts is the deque after the prune.
WaitTimeRaises(ts, now) ==
    \/ ShortCount(ts, now) >= short_limit /\ ShortCount(ts, now) = 0
    \/ Len(ts) >= long_limit /\ ts = <<>>

\* off by one: the short window counts as full one admission early
ShortWaitOffByOne(ts, now) ==
    IF ShortCount(ts, now) >= short_limit - 1 /\ ShortCount(ts, now) > 0
    THEN Max(0, OldestInWindow(ts, now) + short_window - now)
    ELSE 0

ShortWait(ts, now) ==
    IF ShortCount(ts, now) >= short_limit
    THEN Max(0, OldestInWindow(ts, now) + short_window - now)
    ELSE 0

LongWait(ts, now) ==
    IF Len(ts) >= long_limit
    THEN Max(0, Head(ts) + long_window - now)
    ELSE 0

\* _wait_time(now) on the pruned deque ts
WaitTime(ts, now) == Max(ShortWait(ts, now), LongWait(ts, now))

\* `if wait < 0` in place of `if wait <= 0`
AdmitsStrictlyNegative(wait) == wait < 0

\* acquire(): `if wait <= 0`
Admits(wait) == wait <= 0

\* the lock passes to the caller that queued last
ReleasedHolderNewest ==
    IF lockWaiters = <<>> THEN 0 ELSE lockWaiters[Len(lockWaiters)]

\* asyncio.Lock.release() as seen by the callers: the lock passes to the
\* longest-waiting caller, which resumes at the top of the loop.
ReleasedHolder == IF lockWaiters = <<>> THEN 0 ELSE Head(lockWaiters)
ReleasedWaiters == IF lockWaiters = <<>> THEN <<>> ELSE Tail(lockWaiters)
ReleasedPc(c, outcome) ==
    [d \in Callers |->
        IF d = c THEN outcome
        ELSE IF lockWaiters # <<>> /\ d = Head(lockWaiters) THEN "eval"
        ELSE pc[d]]

\* the lock is taken without looking at its holder
LockFreeIgnoresHolder == TRUE

\* asyncio.Lock.acquire() takes the lock without suspending only when it is
\* not held and nobody waits for it
LockFree == lockHolder = 0 /\ lockWaiters = <<>>

\* acquire(): `async with self._lock`
Enter(c) ==
    /\ pc[c] = "idle"
    /\ \A d \in Callers : d < c => pc[d] # "idle"
    /\ IF LockFree
       THEN /\ lockHolder' = c
            /\ pc' = [pc EXCEPT ![c] = "eval"]
            /\ UNCHANGED lockWaiters
       ELSE /\ lockWaiters' = Append(lockWaiters, c)
            /\ pc' = [pc EXCEPT ![c] = "queued"]
            /\ UNCHANGED lockHolder
    /\ UNCHANGED <<short_limit, short_window, long_limit, long_window,
                   timestamps, wakeAt, clock, admitted, waited>>
    /\ UNCHANGED <<pluginVars, clientVars, runVars, windowVars, checkVars>>

\* the new timestamp is put in front of the others
RecordAtFront(ts, now) == <<now>> \o ts

\* self._timestamps.append(now)
Record(ts, now) == Append(ts, now)

\* acquire(): one pass of the loop body, from time.monotonic() to either the
\* return (which leaves the `async with` and releases the lock), the raise
\* (likewise) or the start of asyncio.sleep(wait)
Evaluate(c) ==
    /\ pc[c] = "eval"
    /\ LET now == clock
           ts == Prune(timestamps, now)
       IN  IF WaitTimeRaises(ts, now)
           THEN /\ timestamps' = ts
                /\ pc' = ReleasedPc(c, "raised")
                /\ lockHolder' = ReleasedHolder
                /\ lockWaiters' = ReleasedWaiters
                /\ UNCHANGED <<wakeAt, admitted, waited>>
           ELSE IF Admits(WaitTime(ts, now))
           THEN /\ timestamps' = Record(ts, now)
                /\ admitted' = Append(admitted,
                                      [t |-> now, by |-> c, seen |-> Len(admitted)])
                /\ pc' = ReleasedPc(c, "done")
                /\ lockHolder' = ReleasedHolder
                /\ lockWaiters' = ReleasedWaiters
                /\ UNCHANGED <<wakeAt, waited>>
           ELSE /\ timestamps' = ts
                /\ pc' = [pc EXCEPT ![c] = "sleeping"]
                /\ wakeAt' = [wakeAt EXCEPT ![c] = now + WaitTime(ts, now)]
                /\ waited' = [waited EXCEPT ![c] = TRUE]
                /\ UNCHANGED <<lockHolder, lockWaiters, admitted>>
    /\ UNCHANGED <<short_limit, short_window, long_limit, long_window, clock>>
    /\ UNCHANGED <<pluginVars, clientVars, runVars, windowVars, checkVars>>

\* asyncio.sleep(wait) completes once the clock has reached its deadline
Wake(c) ==
    /\ pc[c] = "sleeping"
    /\ clock >= wakeAt[c]
    /\ pc' = [pc EXCEPT ![c] = "eval"]
    /\ UNCHANGED <<short_limit, short_window, long_limit, long_window, timestamps,
                   lockHolder, lockWaiters, wakeAt, clock, admitted, waited>>
    /\ UNCHANGED <<pluginVars, clientVars, runVars, windowVars, checkVars>>

Lower(t) == IF t > 0 THEN t - 1 ELSE 0

\* time passes
Tick ==
    /\ IF clock < MaxTime
       THEN /\ clock' = clock + 1
            /\ UNCHANGED <<timestamps, wakeAt, admitted>>
       ELSE /\ clock' = clock
            /\ timestamps' = [i \in DOMAIN timestamps |-> Lower(timestamps[i])]
            /\ wakeAt' = [c \in Callers |-> Lower(wakeAt[c])]
            /\ admitted' = [i \in DOMAIN admitted |->
                               [admitted[i] EXCEPT !.t = Lower(@)]]
    /\ UNCHANGED <<short_limit, short_window, long_limit, long_window,
                   lockHolder, lockWaiters, pc, waited>>
    /\ UNCHANGED <<pluginVars, clientVars, runVars, windowVars, checkVars>>

\* RateLimiter.__init__ with any limits and windows, before any acquire()
InitLimiter ==
    /\ short_limit \in 0..MaxLimit
    /\ long_limit \in 0..MaxLimit
    /\ short_window \in 1..MaxWindow
    /\ long_window \in 1..MaxWindow
    /\ timestamps = <<>>
    /\ lockHolder = 0
    /\ lockWaiters = <<>>
    /\ pc = [c \in Callers |-> "idle"]
    /\ wakeAt = [c \in Callers |-> 0]
    /\ clock = 0
    /\ admitted = <<>>
    /\ waited = [c \in Callers |-> FALSE]

NextLimiter ==
    \/ \E c \in Callers : Enter(c)
    \/ \E c \in Callers : Evaluate(c)
    \/ \E c \in Callers : Wake(c)
    \/ Tick

\* RateLimiter() with its default arguments, never used
DefaultShortLimit == 5
DefaultShortWindow == 10
DefaultLongLimit == 20
DefaultLongWindow == 60

IdleLimiter ==
    /\ short_limit = DefaultShortLimit
    /\ short_window = DefaultShortWindow
    /\ long_limit = DefaultLongLimit
    /\ long_window = DefaultLongWindow
    /\ timestamps = <<>>
    /\ lockHolder = 0
    /\ lockWaiters = <<>>
    /\ pc = [c \in Callers |-> "idle"]
    /\ wakeAt = [c \in Callers |-> 0]
    /\ clock = 0
    /\ admitted = <<>>
    /\ waited = [c \in Callers |-> FALSE]

\* ------------------------------------- cost aggregator and fetch_expense

\* Decimal amounts are exact; the model keeps three fractional digits and
\* represents the Decimal d by the integer d * Scale.
Scale == 10 * 10 * 10

\* stop_after_attempt(3)
MaxAttempts == 3

\* wait_exponential(min=1, max=10)
WaitMin == 1
WaitMax == 10

RECURSIVE Pow2(_)
Pow2(n) == IF n <= 0 THEN 1 ELSE 2 * Pow2(n - 1)

\* the exponent is the attempt number itself
WaitExponentialFromTwo(n) ==
    LET exp == Pow2(n)
        capped == IF exp <= WaitMax THEN exp ELSE WaitMax
    IN  IF capped >= WaitMin THEN capped ELSE WaitMin

\* tenacity's wait_exponential with multiplier 1 and base 2, after attempt
\* number n has failed: max(max(0, min), min(2 ** (n - 1), max))
WaitExponential(n) ==
    LET exp == Pow2(n - 1)
        capped == IF exp <= WaitMax THEN exp ELSE WaitMax
    IN  IF capped >= WaitMin THEN capped ELSE WaitMin

Vendors == {"anthropic", "openai"}

\* page cursors: NoCursor is None (a missing or empty next_page likewise)
NoCursor == "none"
Cursors == {"p2", "p3"}

\* what makes an attempt fail: a network error from the GET, a non-2xx status
\* (raise_for_status), a body that is not JSON or an amount that is no number
Failures == {"network", "status", "malformed"}

\* The `data` list of a response: buckets, each a list of exp amounts.
\* For anthropic an amount is the decimal string's value (cents), for openai
\* the amount's `value` (dollars).  <<50250, 10750>> is the pair 50.25 and
\* 10.75 of the test suite.
Bodies ==
    { <<>>,
      << <<>> >>,
      << <<50250, 10750>> >>,
      << <<5>>, <<-750>> >>,
      << <<-750, -750>> >> }

\* next_page is present only when has_more
Responses ==
    [kind : {"ok"}, body : Bodies, has_more : {FALSE}, next_page : {NoCursor}]
    \cup
    [kind : {"ok"}, body : Bodies, has_more : {TRUE},
     next_page : Cursors \cup {NoCursor}]
    \cup
    [kind : Failures, body : {<<>>}, has_more : {FALSE}, next_page : {NoCursor}]

RECURSIVE SumSeq(_)
SumSeq(xs) == IF xs = <<>> THEN 0 ELSE Head(xs) + SumSeq(Tail(xs))

\* for bucket in data: for exp in bucket["results"]: the amounts added up
RECURSIVE BodySum(_)
BodySum(body) ==
    IF body = <<>> THEN 0 ELSE SumSeq(Head(body)) + BodySum(Tail(body))

\* openai values are added as they are
UnitFactorNone(v) == 1

\* anthropic: Decimal(amount_str); openai: Decimal(str(value)) * 100
UnitFactor(v) == IF v = "openai" THEN 100 ELSE 1

\* total += ... over one response
Accumulate(sum, v, body) == sum + UnitFactor(v) * BodySum(body)

\* int(total): truncation toward zero
Truncate(x) == IF x >= 0 THEN x \div Scale ELSE -((-x) \div Scale)

\* int(math.ceil(total))
Ceil(x) == -((-x) \div Scale)

\* `if page:` keeps sending the previous cursor
NextCursorStays(cur, r) == cur

\* page = data.get("next_page")
NextCursor(cur, r) == r.next_page

\* `if total_cents is None`
NoChargesNever(cents) == FALSE

\* fetch_expense: `if total_cents == 0`
NoCharges(cents) == cents = 0

\* one attempt too many
StopAfterOneMore(n) == n > MaxAttempts

\* stop_after_attempt(3): no further attempt once attempt n has failed
Stop(n) == n >= MaxAttempts

\* the running total is carried over from the attempt that failed
FreshTotalKeepsOld(old) == old

\* total = Decimal("0"), the first line of every attempt
FreshTotal(old) == 0

Merchant(v) ==
    IF v = "openai" THEN "OpenAI"
    ELSE IF v = "vodafone" THEN "Vodafone" ELSE "Anthropic"

ExpenseData(v, cents, receipt) ==
    [merchant |-> Merchant(v), amount |-> cents,
     currency |-> IF v = "vodafone" THEN "EUR" ELSE "USD",
     receipt |-> receipt]

\* the document is downloaded in a dry run as well
SkipsDownloadNever(dry) == FALSE

\* `if dry_run:` (vodafone), `if not dry_run: ... else:` (anthropic, openai)
SkipsDownload(dry) == dry

\* fetch_expense is called: it computes the window and awaits
\* _fetch_total_cost, whose first attempt sends its first GET
Call ==
    /\ fpc = "start"
    /\ vendor \in Vendors
    /\ fpc' = "get"
    /\ attempt' = 1
    /\ total' = 0
    /\ page' = NoCursor
    /\ log' = <<>>
    /\ UNCHANGED <<vendor, dry_run, failures, gets, aggResult, expense, error,
                   placeholderWritten, downloads, browserVars, delays, cause>>
    /\ UNCHANGED <<limiterVars, clientVars, runVars, windowVars, checkVars>>

\* only network errors and non-2xx statuses are retried
RetriedIfTransient(kind) == kind \in {"network", "status"}

\* @retry without a `retry=` argument: every exception is retried
Retried(kind) == TRUE

\* the GET for cursor `page` fails: the attempt ends; tenacity either sleeps
\* before the next attempt or gives up, and then fetch_expense raises
GetFails(r) ==
    /\ failures' = failures + 1
    /\ cause' = r.kind
    /\ IF ~Retried(r.kind)
       THEN fpc' = "raised" /\ error' = r.kind /\ delays' = delays
       ELSE IF Stop(attempt)
       THEN fpc' = "raised" /\ error' = "RetryError" /\ delays' = delays
       ELSE /\ fpc' = "backoff"
            /\ error' = error
            /\ delays' = Append(delays, WaitExponential(attempt))
    /\ UNCHANGED <<attempt, total, page, log, aggResult, expense,
                   placeholderWritten, downloads>>

\* the GET for cursor `page` answers r: the amounts are added; with has_more
\* the loop goes on; otherwise _fetch_total_cost returns and fetch_expense
\* runs on to its return or to the await of _download_invoice
GetAnswers(r) ==
    LET sum == Accumulate(total, vendor, r.body)
        cents == Ceil(sum)
    IN  /\ total' = sum
        /\ log' = Append(log, [cursor |-> page, body |-> r.body,
                               has_more |-> r.has_more, next_page |-> r.next_page])
        /\ IF r.has_more
           THEN /\ page' = NextCursor(page, r)
                /\ UNCHANGED <<fpc, aggResult, expense, placeholderWritten>>
           ELSE /\ page' = page
                /\ aggResult' = <<cents>>
                /\ IF NoCharges(cents)
                   THEN /\ fpc' = "returned"
                        /\ UNCHANGED <<expense, placeholderWritten>>
                   ELSE IF SkipsDownload(dry_run)
                   THEN /\ fpc' = "returned"
                        /\ placeholderWritten' = TRUE
                        /\ expense' = <<ExpenseData(vendor, cents, "placeholder")>>
                   ELSE /\ fpc' = "download"
                        /\ UNCHANGED <<expense, placeholderWritten>>
        /\ UNCHANGED <<attempt, failures, error, downloads, delays, cause>>

\* `await self._http.get(...)` of _fetch_total_cost completes
Get ==
    /\ fpc = "get"
    /\ gets' = gets + 1
    /\ \E r \in Responses :
          /\ r.has_more => Len(log) + 1 < MaxPages
          /\ IF r.kind = "ok" THEN GetAnswers(r) ELSE GetFails(r)
    /\ UNCHANGED <<vendor, dry_run, browserVars>>
    /\ UNCHANGED <<limiterVars, clientVars, runVars, windowVars, checkVars>>

\* tenacity's sleep between attempts ends: _fetch_total_cost runs again from
\* its first line
Retry ==
    /\ fpc = "backoff"
    /\ fpc' = "get"
    /\ attempt' = attempt + 1
    /\ cause' = ""
    /\ total' = FreshTotal(total)
    /\ page' = NoCursor
    /\ log' = <<>>
    /\ UNCHANGED <<vendor, dry_run, failures, gets, aggResult, expense, error,
                   placeholderWritten, downloads, browserVars, delays>>
    /\ UNCHANGED <<limiterVars, clientVars, runVars, windowVars, checkVars>>

\* how a download ends: the document is saved, or the browser session does
\* not start, or a later step (login, navigation, download) fails
DownloadOutcomes == {"saved", "no_session", "failed"}

\* the amount the record carries: _fetch_total_cost's result or the amount
\* read from the invoice row
RecordAmount ==
    IF vendor \in Vendors THEN aggResult[1] ELSE amount_cents[1]

\* `await self._download_invoice(...)` completes, with the saved document's
\* path or with an exception.  The API plugins' _download_invoice opens its
\* own browser session and logs in; Vodafone's uses the page it is given.
Download ==
    /\ fpc = "download"
    /\ downloads' = downloads + 1
    /\ \E o \in DownloadOutcomes :
          /\ sessions' = IF vendor \in Vendors THEN sessions + 1 ELSE sessions
          /\ logins' = IF vendor \in Vendors /\ o # "no_session"
                       THEN logins + 1 ELSE logins
          /\ IF o = "saved"
             THEN /\ fpc' = "returned"
                  /\ expense' = <<ExpenseData(vendor, RecordAmount, "downloaded")>>
                  /\ error' = error
             ELSE /\ fpc' = "raised"
                  /\ error' = "DownloadError"
                  /\ expense' = expense
    /\ UNCHANGED <<vendor, dry_run, attempt, total, page, log, failures, gets,
                   aggResult, placeholderWritten, amount_cents, delays,
                   cause>>
    /\ UNCHANGED <<limiterVars, clientVars, runVars, windowVars, checkVars>>

\* Vodafone's fetch_expense is called: it enters a BrowserSession, opens the
\* login page and logs in, whatever dry_run is; any step may raise
OpenSession ==
    /\ fpc = "start"
    /\ vendor = "vodafone"
    /\ sessions' = sessions + 1
    /\ \E o \in {"logged_in", "no_session", "failed"} :
          /\ logins' = IF o = "no_session" THEN logins ELSE logins + 1
          /\ IF o = "logged_in"
             THEN fpc' = "extract" /\ error' = error
             ELSE fpc' = "raised" /\ error' = "BrowserError"
    /\ UNCHANGED <<vendor, dry_run, attempt, total, page, log, failures, gets,
                   aggResult, expense, placeholderWritten, downloads,
                   amount_cents, delays, cause>>
    /\ UNCHANGED <<limiterVars, clientVars, runVars, windowVars, checkVars>>

\* what _extract_amount returns: None (<<>>), or the cents of the amount
\* found in the invoice row
ExtractedAmounts == {<<>>, <<0>>, <<4500>>}

\* `if amount_cents is None or amount_cents == 0`
NoInvoice(r) == r = <<>> \/ r[1] = 0

\* Vodafone's _extract_amount has returned: without an amount fetch_expense
\* returns None; in a dry run it writes the stand-in and returns the record;
\* otherwise it awaits _download_invoice
Extract ==
    /\ fpc = "extract"
    /\ \E r \in ExtractedAmounts :
          /\ amount_cents' = r
          /\ IF NoInvoice(r)
             THEN /\ fpc' = "returned"
                  /\ UNCHANGED <<expense, placeholderWritten>>
             ELSE IF SkipsDownload(dry_run)
             THEN /\ fpc' = "returned"
                  /\ placeholderWritten' = TRUE
                  /\ expense' = <<ExpenseData(vendor, r[1], "placeholder")>>
             ELSE /\ fpc' = "download"
                  /\ UNCHANGED <<expense, placeholderWritten>>
    /\ UNCHANGED <<vendor, dry_run, attempt, total, page, log, failures, gets,
                   aggResult, error, downloads, sessions, logins, delays,
                   cause>>
    /\ UNCHANGED <<limiterVars, clientVars, runVars, windowVars, checkVars>>

\* a plugin of any vendor, constructed, fetch_expense not yet called
InitPlugin ==
    /\ vendor \in Vendors \cup {"vodafone"}
    /\ dry_run \in BOOLEAN
    /\ fpc = "start"
    /\ attempt = 0
    /\ total = 0
    /\ page = NoCursor
    /\ log = <<>>
    /\ failures = 0
    /\ gets = 0
    /\ aggResult = <<>>
    /\ expense = <<>>
    /\ error = ""
    /\ placeholderWritten = FALSE
    /\ downloads = 0
    /\ sessions = 0
    /\ logins = 0
    /\ amount_cents = <<>>
    /\ delays = <<>>
    /\ cause = ""

IdlePlugin ==
    /\ vendor = "anthropic"
    /\ dry_run = FALSE
    /\ fpc = "start"
    /\ attempt = 0
    /\ total = 0
    /\ page = NoCursor
    /\ log = <<>>
    /\ failures = 0
    /\ gets = 0
    /\ aggResult = <<>>
    /\ expense = <<>>
    /\ error = ""
    /\ placeholderWritten = FALSE
    /\ downloads = 0
    /\ sessions = 0
    /\ logins = 0
    /\ amount_cents = <<>>
    /\ delays = <<>>
    /\ cause = ""

NextPlugin == Call \/ Get \/ Retry \/ Download \/ OpenSession \/ Extract

\* ------------------------------------------------ the submission client

\* `result.get("responseCode", 0) >= 400`
ErrorCodeFloor == 400

\* transaction ids the backend hands out; NoId is None (a first entry
\* without "transactionID" gives None as well)
Ids == {"txn_456", "txn_789"}
NoId == "none"

NoMessage == ""

\* A 2xx response body.  form "text" is a body that is not JSON, its text kept
\* in responseMessage; form "array" is JSON that is not an object; form
\* "object" is a JSON object, with responseCode 0 when it has no such key.
Body(form, code, msg, hasList, list) ==
    [form |-> form, responseCode |-> code, responseMessage |-> msg,
     hasList |-> hasList, transactionList |-> list]

TransactionLists == {<<>>, <<"txn_456">>, <<"txn_789", "txn_456">>, <<NoId>>}

ClientBodies ==
    {Body("text", 0, "Server busy", FALSE, <<>>)}
    \cup {Body("array", 0, NoMessage, FALSE, <<>>)}
    \cup {Body("object", code, NoMessage, FALSE, <<>>) : code \in {0, 200}}
    \cup {Body("object", 200, NoMessage, TRUE, l) : l \in TransactionLists}
    \cup {Body("object", ErrorCodeFloor, "Server busy", FALSE, <<>>)}
    \cup {Body("object", 410, "Invalid credentials", FALSE, <<>>)}
    \cup {Body("object", 410, "Invalid credentials", TRUE, <<"txn_456">>)}

NoBody == Body("none", 0, NoMessage, FALSE, <<>>)

\* what `await self._http.post(...)` and raise_for_status() can give: a
\* transport error, a non-2xx status, or a 2xx response with a body
ClientResponses ==
    [kind : {"network", "status"}, body : {NoBody}]
    \cup [kind : {"ok"}, body : ClientBodies]

\* response.json(), with the fallback for a body that is not JSON
Parsed(body) ==
    IF body.form = "text"
    THEN Body("object", 200, body.responseMessage, FALSE, <<>>)
    ELSE body

\* no response is taken for an application error
IsApiErrorNever(res) == FALSE

\* _request: isinstance(result, dict) and result.get("responseCode", 0) >= 400
IsApiError(res) == res.form = "object" /\ res.responseCode >= ErrorCodeFloor

\* the id of the last entry is taken
FirstTransactionIdTakesLast(res) ==
    IF res.form = "object" /\ res.hasList /\ res.transactionList # <<>>
    THEN res.transactionList[Len(res.transactionList)]
    ELSE NoId

\* submit_expense: transaction_list[0].get("transactionID") of a dict result
\* with a non-empty transactionList, else None
FirstTransactionId(res) ==
    IF res.form = "object" /\ res.hasList /\ res.transactionList # <<>>
    THEN Head(res.transactionList)
    ELSE NoId

\* the upload is made whenever an id was obtained
UploadDueIgnoresFile(id, exists) == id # NoId

\* the upload is made whenever the receipt exists
UploadDueIgnoresId(id, exists) == exists

\* submit_expense: `if transaction_id and expense.receipt_path.exists()`
UploadDue(id, exists) == id # NoId /\ exists

\* the file is not looked at
ReceiptMissingNeverChecked(exists) == FALSE

\* upload_receipt: `if not receipt_path.exists()`
ReceiptMissing(exists) == ~exists

NoError == [type |-> "", message |-> <<>>]

\* RuntimeError(f"Expensify API error: {result.get('responseMessage', result)}")
ApiError(res) ==
    [type |-> "RuntimeError",
     message |-> <<"Expensify API error: ", res.responseMessage>>]

\* FileNotFoundError(f"Receipt not found: {receipt_path}")
FileNotFound ==
    [type |-> "FileNotFoundError",
     message |-> <<"Receipt not found: ", "receipt_path">>]

\* what httpx raises for a failed POST or from raise_for_status()
TransportError(kind) ==
    [type |-> IF kind = "status" THEN "HTTPStatusError" ELSE "TransportError",
     message |-> <<>>]

\* acquire() calls made so far on the client's limiter
Made == Cardinality({c \in Callers : pc[c] # "idle"})

\* the request goes out twice
SentTwice(sent, req) == Append(Append(sent, req), req)

\* `await self._http.post(...)`: one request goes out
Sent(sent, req) == Append(sent, req)

\* the POST goes out whatever the limiter says
AdmittedNotAwaited(c) == TRUE

\* `await self._rate_limiter.acquire()` has returned
Admitted(c) == pc[c] = "done"

\* upload_receipt(expense, transaction_id) from its first line up to
\* `await self._rate_limiter.acquire()`
StartUpload(id) ==
    IF ReceiptMissing(receiptExists)
    THEN /\ cpc' = "raised"
         /\ cerror' = FileNotFound
         /\ UNCHANGED <<acq, argId>>
    ELSE /\ cpc' = "upload"
         /\ acq' = Made + 1
         /\ argId' = id
         /\ cerror' = cerror

\* submit_expense(expense) is called: create_expense and _request run up to
\* `await self._rate_limiter.acquire()`
CallSubmit ==
    /\ cpc = "idle"
    /\ entry = "submit_expense"
    /\ cpc' = "create"
    /\ acq' = Made + 1
    /\ UNCHANGED <<entry, receiptExists, argId, posts, createResult,
                   transaction_id, receiptResult, result, cerror>>
    /\ UNCHANGED <<limiterVars, pluginVars, runVars, windowVars, checkVars>>

\* upload_receipt is called by itself
CallUpload ==
    /\ cpc = "idle"
    /\ entry = "upload_receipt"
    /\ \E id \in Ids : StartUpload(id)
    /\ UNCHANGED <<entry, receiptExists, posts, createResult, transaction_id,
                   receiptResult, result>>
    /\ UNCHANGED <<limiterVars, pluginVars, runVars, windowVars, checkVars>>

\* the client's pending call enters acquire() of the client's limiter
ClientEnter(c) ==
    /\ cpc \in {"create", "upload"}
    /\ c = acq
    /\ Enter(c)

Request(cmd, id, r) ==
    [cmd |-> cmd, transactionID |-> id, by |-> acq,
     admissions |-> Len(admitted), response |-> r]

\* the create POST of _request completes: raise_for_status, the parse, the
\* application-error test; then submit_expense reads the transaction id and
\* either returns or runs on into upload_receipt up to its acquire()
PostCreate ==
    /\ cpc = "create"
    /\ Admitted(acq)
    /\ \E r \in ClientResponses :
          /\ posts' = Sent(posts, Request("create", NoId, r))
          /\ IF r.kind # "ok"
             THEN /\ cpc' = "raised"
                  /\ cerror' = TransportError(r.kind)
                  /\ UNCHANGED <<acq, argId, createResult, transaction_id, result>>
             ELSE IF IsApiError(Parsed(r.body))
             THEN /\ cpc' = "raised"
                  /\ cerror' = ApiError(Parsed(r.body))
                  /\ UNCHANGED <<acq, argId, createResult, transaction_id, result>>
             ELSE LET res == Parsed(r.body)
                      id == FirstTransactionId(res)
                  IN  /\ createResult' = <<res>>
                      /\ transaction_id' = id
                      /\ IF UploadDue(id, receiptExists)
                         THEN /\ StartUpload(id)
                              /\ result' = result
                         ELSE /\ cpc' = "returned"
                              /\ result' = <<[create |-> res, receipt |-> <<>>,
                                              transaction_id |-> id]>>
                              /\ UNCHANGED <<acq, argId, cerror>>
    /\ UNCHANGED <<entry, receiptExists, receiptResult>>
    /\ UNCHANGED <<limiterVars, pluginVars, runVars, windowVars, checkVars>>

\* the upload POST of upload_receipt completes: raise_for_status and the
\* parse; its value is returned as it is, and submit_expense returns
PostUpload ==
    /\ cpc = "upload"
    /\ Admitted(acq)
    /\ \E r \in ClientResponses :
          /\ posts' = Sent(posts, Request("upload", argId, r))
          /\ IF r.kind # "ok"
             THEN /\ cpc' = "raised"
                  /\ cerror' = TransportError(r.kind)
                  /\ UNCHANGED <<receiptResult, result>>
             ELSE /\ cpc' = "returned"
                  /\ receiptResult' = <<Parsed(r.body)>>
                  /\ result' = IF entry = "submit_expense"
                               THEN <<[create |-> createResult[1],
                                       receipt |-> <<Parsed(r.body)>>,
                                       transaction_id |-> transaction_id]>>
                               ELSE result
                  /\ cerror' = cerror
    /\ UNCHANGED <<entry, receiptExists, acq, argId, createResult, transaction_id>>
    /\ UNCHANGED <<limiterVars, pluginVars, runVars, windowVars, checkVars>>

\* ExpensifyClient.__init__, no call made yet
NewClient ==
    /\ cpc = "idle"
    /\ acq = 0
    /\ argId = NoId
    /\ posts = <<>>
    /\ createResult = <<>>
    /\ transaction_id = NoId
    /\ receiptResult = <<>>
    /\ result = <<>>
    /\ cerror = NoError

\* a client and the public method that is going to be called on it, for an
\* expense whose receipt file exists or not
InitClient ==
    /\ entry \in {"submit_expense", "upload_receipt"}
    /\ receiptExists \in BOOLEAN
    /\ NewClient

IdleClient ==
    /\ entry = "submit_expense"
    /\ receiptExists = TRUE
    /\ NewClient

NextClient ==
    \/ CallSubmit
    \/ CallUpload
    \/ \E c \in Callers : ClientEnter(c)
    \/ \E c \in Callers : Evaluate(c)
    \/ PostCreate
    \/ PostUpload
    \/ Tick

\* ------------------------------------------------------ the orchestrator

NumPlugins == 2    \* a run selects at most NumPlugins plugins

\* names a run can select; "unknown" is configured and enabled but no plugin
\* class is registered under it (it can only be selected with --source)
PluginNames == {"anthropic", "vodafone", "unknown"}

\* get_plugin: `name in _registry`
Registered(name) == name # "unknown"

\* plugin_names, after the filter on the configuration
Selections == UNION {[1..n -> PluginNames] : n \in 0..NumPlugins}

\* amounts in minor units; fetch_expense never returns 0
Amounts == {6100, -750}

Currency(name) == IF name = "vodafone" THEN "EUR" ELSE "USD"

\* what `await plugin.fetch_expense(...)` gives: None, an exception, or an
\* ExpenseData whose receipt file exists or not
NoExpense == [kind |-> "none", amount |-> 0, receipt |-> FALSE, error |-> NoError]

FetchOutcomes ==
    {NoExpense}
    \cup {[kind |-> "raised", amount |-> 0, receipt |-> FALSE,
           error |-> [type |-> e, message |-> <<>>]] :
             e \in {"RetryError", "DownloadError"}}
    \cup {[kind |-> "expense", amount |-> a, receipt |-> x, error |-> NoError] :
             a \in Amounts, x \in BOOLEAN}

\* what `await self._http.aclose()` of the client raises when it fails
CloseError == [type |-> "CloseError", message |-> <<>>]

\* AnthropicPlugin.cleanup awaits self._http.aclose(), which may raise; the
\* base class's cleanup, which VodafonePlugin inherits, does nothing
CleanupOutcomes(name) == IF name = "vodafone" THEN {TRUE} ELSE BOOLEAN

\* the dicts appended to `results`; amount is <<>> where the dict has none
Skipped(name) ==
    [plugin |-> name, status |-> "skipped", amount |-> <<>>, currency |-> "",
     error |-> NoError]

Success(name, e) ==
    [plugin |-> name, status |-> "success", amount |-> <<e.amount>>,
     currency |-> Currency(name), error |-> NoError]

Failed(name, err) ==
    [plugin |-> name, status |-> "error", amount |-> <<>>, currency |-> "",
     error |-> err]

\* error_count > 0
AnyError(res) == \E k \in DOMAIN res : res[k].status = "error"

\* the loop head for the i-th plugin: get_plugin and the call of
\* fetch_expense; past the last plugin the summary and the exit
Iterate(i, res) ==
    IF i > Len(selected)
    THEN /\ rpc' = "exited"
         /\ exitStatus' = IF AnyError(res) THEN "failure" ELSE "success"
         /\ UNCHANGED <<idx, instantiated>>
    ELSE IF ~Registered(selected[i])
    THEN /\ rpc' = "aborted"
         /\ exitStatus' = "exception"
         /\ idx' = i
         /\ UNCHANGED instantiated
    ELSE /\ rpc' = "fetch"
         /\ idx' = i
         /\ instantiated' = instantiated \cup {i}
         /\ UNCHANGED exitStatus

\* the loop takes the same plugin again
NextIndexRepeats(i) == i

\* `for name in plugin_names`: the next name of the list
NextIndex(i) == i + 1

\* the record is submitted in a dry run as well
SubmitDueAlways(dry) == TRUE

\* `if not dry_run:` before the submission
SubmitDue(dry) == ~dry

\* the early `continue` leaves the loop body without the cleanup step
RunsCleanupUnlessSkipped(status) == status # "skipped"

\* `finally: await plugin.cleanup()`, whatever way the try block is left
RunsCleanup(status) == TRUE

\* results.append(...) and the way out of the try statement
Finish(rec) ==
    /\ results' = Append(results, rec)
    /\ IF RunsCleanup(rec.status)
       THEN /\ rpc' = "cleanup"
            /\ cleanups' = [cleanups EXCEPT ![idx] = @ + 1]
            /\ UNCHANGED <<idx, instantiated, exitStatus>>
       ELSE /\ cleanups' = cleanups
            /\ Iterate(NextIndex(idx), Append(results, rec))

\* _run_async from its first line to the first await: the selection, the
\* exit when nothing is selected, else the first plugin
StartRun ==
    /\ rpc = "select"
    /\ IF selected = <<>>
       THEN /\ rpc' = "exited"
            /\ exitStatus' = "failure"
            /\ UNCHANGED <<idx, instantiated>>
       ELSE Iterate(1, results)
    /\ UNCHANGED <<selected, run_dry, fetched, results, cleanups, submits,
                   limiters, sentBefore>>
    /\ UNCHANGED <<limiterVars, pluginVars, clientVars, windowVars, checkVars>>

\* `async with ExpensifyClient(config.expensify) as client`: a new client
\* with a new RateLimiter(), and client.submit_expense(expense) called on it
ClientCreated(e) ==
    /\ entry' = "submit_expense"
    /\ receiptExists' = e.receipt
    /\ cpc' = "create"
    /\ acq' = 1
    /\ argId' = NoId
    /\ posts' = <<>>
    /\ createResult' = <<>>
    /\ transaction_id' = NoId
    /\ receiptResult' = <<>>
    /\ result' = <<>>
    /\ cerror' = NoError
    /\ short_limit' = DefaultShortLimit
    /\ short_window' = DefaultShortWindow
    /\ long_limit' = DefaultLongLimit
    /\ long_window' = DefaultLongWindow
    /\ timestamps' = <<>>
    /\ lockHolder' = 0
    /\ lockWaiters' = <<>>
    /\ pc' = [c \in Callers |-> "idle"]
    /\ wakeAt' = [c \in Callers |-> 0]
    /\ admitted' = <<>>
    /\ waited' = [c \in Callers |-> FALSE]
    /\ UNCHANGED clock

\* `await plugin.fetch_expense(...)` completes; the loop body runs on to the
\* await of submit_expense or, through the append, to the await of cleanup
Fetch ==
    /\ rpc = "fetch"
    /\ \E o \in FetchOutcomes :
          IF o.kind = "expense" /\ SubmitDue(run_dry)
          THEN /\ rpc' = "submit"
               /\ fetched' = <<o>>
               /\ submits' = [submits EXCEPT ![idx] = @ + 1]
               /\ ClientCreated(o)
               /\ limiters' = limiters + 1
               /\ UNCHANGED <<idx, instantiated, exitStatus, results, cleanups>>
          ELSE /\ Finish(IF o.kind = "none" THEN Skipped(selected[idx])
                         ELSE IF o.kind = "raised"
                         THEN Failed(selected[idx], o.error)
                         ELSE Success(selected[idx], o))
               /\ fetched' = <<>>
               /\ UNCHANGED <<submits, limiters>>
               /\ UNCHANGED <<limiterVars, clientVars>>
    /\ UNCHANGED <<selected, run_dry, sentBefore>>
    /\ UNCHANGED <<pluginVars, windowVars, checkVars>>

\* the client and its limiter are gone once the `async with` block is left
ClientDropped ==
    /\ cpc' = "idle"
    /\ acq' = 0
    /\ argId' = NoId
    /\ posts' = <<>>
    /\ createResult' = <<>>
    /\ transaction_id' = NoId
    /\ receiptResult' = <<>>
    /\ result' = <<>>
    /\ cerror' = NoError
    /\ timestamps' = <<>>
    /\ pc' = [c \in Callers |-> "idle"]
    /\ admitted' = <<>>
    /\ UNCHANGED <<entry, receiptExists, short_limit, short_window, long_limit,
                   long_window, lockHolder, lockWaiters, wakeAt, clock, waited>>

\* submit_expense has returned or raised: __aexit__ awaits close(), which
\* may raise itself; then the append of the success or of the error record
Close ==
    /\ rpc = "submit"
    /\ cpc \in {"returned", "raised"}
    /\ \E closed \in BOOLEAN :
          Finish(IF ~closed THEN Failed(selected[idx], CloseError)
                 ELSE IF cpc = "raised" THEN Failed(selected[idx], cerror)
                 ELSE Success(selected[idx], fetched[1]))
    /\ fetched' = <<>>
    /\ sentBefore' = sentBefore + Len(posts)
    /\ ClientDropped
    /\ UNCHANGED <<selected, run_dry, submits, limiters>>
    /\ UNCHANGED <<pluginVars, windowVars, checkVars>>

\* `await plugin.cleanup()` completes or raises; nothing catches what it
\* raises
Cleanup ==
    /\ rpc = "cleanup"
    /\ \E ok \in CleanupOutcomes(selected[idx]) :
          IF ok
          THEN Iterate(NextIndex(idx), results)
          ELSE /\ rpc' = "aborted"
               /\ exitStatus' = "exception"
               /\ UNCHANGED <<idx, instantiated>>
    /\ UNCHANGED <<selected, run_dry, fetched, results, cleanups, submits,
                   limiters, sentBefore>>
    /\ UNCHANGED <<limiterVars, pluginVars, clientVars, windowVars, checkVars>>

\* the `run` command is invoked with some selection, dry-run or not
InitRun ==
    /\ selected \in Selections
    /\ run_dry \in BOOLEAN
    /\ rpc = "select"
    /\ idx = 0
    /\ fetched = <<>>
    /\ results = <<>>
    /\ cleanups = [i \in 1..NumPlugins |-> 0]
    /\ submits = [i \in 1..NumPlugins |-> 0]
    /\ instantiated = {}
    /\ exitStatus = "running"
    /\ limiters = 0
    /\ sentBefore = 0

IdleRun ==
    /\ selected = <<>>
    /\ run_dry = FALSE
    /\ rpc = "off"
    /\ idx = 0
    /\ fetched = <<>>
    /\ results = <<>>
    /\ cleanups = [i \in 1..NumPlugins |-> 0]
    /\ submits = [i \in 1..NumPlugins |-> 0]
    /\ instantiated = {}
    /\ exitStatus = "running"
    /\ limiters = 0
    /\ sentBefore = 0

NextRun ==
    \/ StartRun
    \/ Fetch
    \/ \E c \in Callers : ClientEnter(c)
    \/ \E c \in Callers : Evaluate(c)
    \/ PostCreate
    \/ PostUpload
    \/ Close
    \/ Cleanup

\* ------------------------------------------------ the billing window

\* datetime.date(y, m, d)
Date(y, m, d) == [year |-> y, month |-> m, day |-> d]

\* `start_date = datetime.date(year, month, 1)`
WindowStart(y, m) == Date(y, m, 1)

\* the month after December is taken in the same year
WindowEndNoRollover(y, m) == Date(y, m + 1, 1)

\* `if month == 12: end_date = date(year + 1, 1, 1)
\*  else: end_date = date(year, month + 1, 1)`
WindowEnd(y, m) == IF m = 12 THEN Date(y + 1, 1, 1) ELSE Date(y, m + 1, 1)

\* `date=start_date` of the ExpenseData
BillingDate(start) == start

\* fetch_expense(year, month) is called
CallFetch ==
    /\ wpc = "idle"
    /\ wpc' = "called"
    /\ start_date' = <<WindowStart(year, month)>>
    /\ end_date' = <<WindowEnd(year, month)>>
    /\ UNCHANGED <<wplugin, year, month, date>>
    /\ UNCHANGED <<limiterVars, pluginVars, clientVars, runVars, checkVars>>

\* _fetch_total_cost(start_date, end_date) returned: with a total of zero
\* fetch_expense returns None, otherwise a record dated start_date
ReturnFetch ==
    /\ wpc = "called"
    /\ wpc' = "done"
    /\ \E zero \in BOOLEAN :
          date' = IF zero THEN <<>> ELSE <<BillingDate(start_date[1])>>
    /\ UNCHANGED <<wplugin, year, month, start_date, end_date>>
    /\ UNCHANGED <<limiterVars, pluginVars, clientVars, runVars, checkVars>>

InitWindow ==
    /\ wplugin \in Vendors
    /\ year \in MinYear..MaxYear
    /\ month \in 1..12
    /\ wpc = "idle"
    /\ start_date = <<>>
    /\ end_date = <<>>
    /\ date = <<>>

IdleWindow ==
    /\ wplugin = "anthropic"
    /\ year = MinYear
    /\ month = 1
    /\ wpc = "off"
    /\ start_date = <<>>
    /\ end_date = <<>>
    /\ date = <<>>

NextWindow == CallFetch \/ ReturnFetch

\* ------------------------------------------------ validate_credentials

\* the path of the validation request
ValidationPath(v) ==
    IF v = "anthropic" THEN "/v1/organizations/me" ELSE "/v1/organization/costs"

\* subclasses of httpx.HTTPError that the transport raises
TransportErrors == {"ConnectError", "ConnectTimeout", "ReadTimeout"}

\* what `await self._http.get(...)` does: a response or a transport error
ValidationOutcomes ==
    [kind : {"response"}, status_code : MinStatus..MaxStatus, error : {"none"}]
    \cup [kind : {"raise"}, status_code : {0}, error : TransportErrors]

\* every successful status is accepted
IsOkAnySuccess(code) == code \in 200..299

\* `response.status_code == 200`
IsOk(code) == code = 200

\* `except httpx.HTTPError:`
Caught(e) == e \in TransportErrors

\* validate_credentials sends its one GET
CallValidate ==
    /\ vpc = "idle"
    /\ vpc' = "called"
    /\ requests' = Append(requests, [method |-> "GET",
                                      path |-> ValidationPath(vplugin)])
    /\ UNCHANGED <<vplugin, answer, valid>>
    /\ UNCHANGED <<limiterVars, pluginVars, clientVars, runVars, windowVars>>

\* the GET answers or raises, and validate_credentials returns
ReturnValidate ==
    /\ vpc = "called"
    /\ \E r \in ValidationOutcomes :
          /\ answer' = <<r>>
          /\ IF r.kind = "response"
                THEN /\ valid' = <<IsOk(r.status_code)>>
                     /\ vpc' = "returned"
                ELSE IF Caught(r.error)
                        THEN /\ valid' = <<FALSE>>
                             /\ vpc' = "returned"
                        ELSE /\ valid' = <<>>
                             /\ vpc' = "raised"
    /\ UNCHANGED <<vplugin, requests>>
    /\ UNCHANGED <<limiterVars, pluginVars, clientVars, runVars, windowVars>>

InitValidate ==
    /\ vplugin \in Vendors
    /\ vpc = "idle"
    /\ requests = <<>>
    /\ answer = <<>>
    /\ valid = <<>>

IdleValidate ==
    /\ vplugin = "anthropic"
    /\ vpc = "off"
    /\ requests = <<>>
    /\ answer = <<>>
    /\ valid = <<>>

NextValidate == CallValidate \/ ReturnValidate

\* ------------------------------------------------------- specifications

\* one fetch_expense call of one plugin; the limiter is not involved
PluginAlone == InitPlugin /\ IdleLimiter /\ IdleClient /\ IdleRun
    /\ IdleWindow /\ IdleValidate
SpecPlugin == PluginAlone /\ [][NextPlugin]_vars

\* the limiter alone, used by NumCalls concurrent callers
LimiterAlone == InitLimiter /\ IdlePlugin /\ IdleClient /\ IdleRun
    /\ IdleWindow /\ IdleValidate
SpecLimiter == LimiterAlone /\ [][NextLimiter]_vars

\* the clock keeps advancing and the event loop keeps running ready tasks
LiveLimiter ==
    /\ SpecLimiter
    /\ WF_vars(Tick)
    /\ WF_vars(\E c \in Callers : Enter(c) \/ Evaluate(c) \/ Wake(c))

\* one call of submit_expense or of upload_receipt on a new client, which
\* owns a new RateLimiter()
ClientAlone == InitClient /\ IdleLimiter /\ IdlePlugin /\ IdleRun
    /\ IdleWindow /\ IdleValidate
SpecClient == ClientAlone /\ [][NextClient]_vars

\* one run of the orchestrator, in which the clock does not advance: every
\* client has its own new limiter with the default quotas, which its two
\* admissions never fill, so no clock reading changes what a run does
RunAlone == InitRun /\ IdleClient /\ IdleLimiter /\ IdlePlugin
    /\ IdleWindow /\ IdleValidate
SpecRun == RunAlone /\ [][NextRun]_vars

\* one fetch_expense call of an API plugin, for some billing month
WindowAlone ==
    InitWindow /\ IdleValidate /\ IdleLimiter /\ IdlePlugin /\ IdleClient
    /\ IdleRun
SpecWindow == WindowAlone /\ [][NextWindow]_vars

\* one validate_credentials call of an API plugin
ValidateAlone ==
    InitValidate /\ IdleWindow /\ IdleLimiter /\ IdlePlugin /\ IdleClient
    /\ IdleRun
SpecValidate == ValidateAlone /\ [][NextValidate]_vars

\* ------------------------------------------------- claims on the RateLimiter

QuotasPositive == short_limit >= 1 /\ long_limit >= 1

\* every admission ever made whose reading t satisfies t >= now - window
AdmittedSince(window) ==
    {i \in DOMAIN admitted : admitted[i].t >= clock - window}

InSection(c) == pc[c] \in {"eval", "sleeping"}

Min(a, b) == IF a <= b THEN a ELSE b

\* C1: with both limits >= 1 and long_window >= short_window, at every instant
\* the admissions with now - short_window <= t <= now number at most
\* short_limit and those with now - long_window <= t <= now at most long_limit.
C1_QuotaHoldsInEveryWindow ==
    (QuotasPositive /\ long_window >= short_window) =>
        /\ Cardinality(AdmittedSince(short_window)) <= short_limit
        /\ Cardinality(AdmittedSince(long_window)) <= long_limit

\* C2: the evaluate / wait / record sequence is one exclusive section: at most
\* one caller is inside it, it is the lock's holder, every other caller that
\* has called and not finished is queued, and no two admissions were decided
\* on the same observed state of the admission history.
C2_SectionIsExclusive ==
    /\ Cardinality({c \in Callers : InSection(c)}) <= 1
    /\ \A c \in Callers : InSection(c) => lockHolder = c
    /\ \A c \in Callers :
          pc[c] = "queued" <=> \E i \in DOMAIN lockWaiters : lockWaiters[i] = c
    /\ \A i, j \in DOMAIN admitted :
          i # j => admitted[i].seen # admitted[j].seen

C2_Witness ==
    /\ \E c \in Callers : pc[c] = "sleeping"
    /\ lockWaiters # <<>>
    /\ admitted # <<>>

\* C3: acquire() never raises, for every configuration the constructor
\* accepts (a limit of 0 included) and every reachable state.
C3_AcquireNeverRaises == \A c \in Callers : pc[c] # "raised"

\* what does hold: with both limits >= 1 no acquire() raises
C3_NoRaiseWithPositiveLimits ==
    QuotasPositive => \A c \in Callers : pc[c] # "raised"

C5_SpacingAtLeastWindow ==
    (QuotasPositive /\ long_window >= short_window) =>
        \A i \in DOMAIN admitted :
            /\ (i + short_limit \in DOMAIN admitted
                  /\ admitted[i + short_limit].t = clock)
               => admitted[i + short_limit].t >= admitted[i].t + short_window
            /\ (i + long_limit \in DOMAIN admitted
                  /\ admitted[i + long_limit].t = clock)
               => admitted[i + long_limit].t >= admitted[i].t + long_window

\* the retained timestamps (those the prune at `clock` keeps) that lie in the
\* short window, and all retained timestamps
RetainedInShort ==
    {i \in DOMAIN timestamps : /\ timestamps[i] >= clock - long_window
                               /\ timestamps[i] >= clock - short_window}
Retained == {i \in DOMAIN timestamps : timestamps[i] >= clock - long_window}

\* C6: an evaluation that finds fewer than short_limit timestamps in the short
\* window and fewer than long_limit retained admits the call on the spot,
\* without suspending; and the first min(short_limit, long_limit) calls on a
\* fresh limiter are admitted without ever having waited.
C6_AdmissibleCallIsNotDelayed ==
    /\ [][\A c \in Callers :
            (/\ pc[c] = "eval"
             /\ pc'[c] # "eval"
             /\ Cardinality(RetainedInShort) < short_limit
             /\ Cardinality(Retained) < long_limit)
            => (/\ pc'[c] = "done"
                /\ waited'[c] = waited[c]
                /\ admitted' = Append(admitted,
                                      [t |-> clock, by |-> c, seen |-> Len(admitted)]))
         ]_vars
    /\ [](\A i \in DOMAIN admitted :
             i <= Min(short_limit, long_limit) => ~waited[admitted[i].by])

C6_Witness ==
    /\ short_limit = 2
    /\ long_limit = 2
    /\ Len(admitted) >= 3
    /\ \A i \in 1..3 : ~waited[admitted[i].by]

\* ---------------------------------- claims on the aggregator and the plugin

\* the exact sum, in units of 1/Scale, of every amount of every bucket of
\* every page answered in the current attempt, in the vendor's minor unit
RECURSIVE LogSum(_)
LogSum(entries) ==
    IF entries = <<>> THEN 0
    ELSE UnitFactor(vendor) * BodySum(Head(entries).body) + LogSum(Tail(entries))

\* what rounding every page up on its own would give
RECURSIVE PerPageCeilings(_)
PerPageCeilings(entries) ==
    IF entries = <<>> THEN 0
    ELSE Ceil(UnitFactor(vendor) * BodySum(Head(entries).body))
         + PerPageCeilings(Tail(entries))

NoResults(body) == \A b \in DOMAIN body : body[b] = <<>>

\* every page that declares has_more supplies a next_page cursor
ChainHasCursors ==
    \A k \in DOMAIN log : log[k].has_more => log[k].next_page # NoCursor

\* C7: over a chain of pages in which every page but the last declares
\* has_more with a next_page cursor, a successful _fetch_total_cost has sent
\* one GET per page, the first without a cursor and each later one with the
\* next_page of the response before it, has stopped at the first response
\* without has_more, and returns the total over all amounts of all pages
\* (the GETs are those of the attempt that succeeded; when no attempt failed
\* they are all the GETs of the call).
C7_OneGetPerPageOfTheChain ==
    (aggResult # <<>> /\ ChainHasCursors) =>
        /\ log[1].cursor = NoCursor
        /\ \A k \in 1..(Len(log) - 1) :
              log[k].has_more /\ log[k + 1].cursor = log[k].next_page
        /\ ~log[Len(log)].has_more
        /\ failures = 0 => gets = Len(log)
        /\ aggResult[1] = Ceil(LogSum(log))

C7_Witness ==
    /\ aggResult # <<>>
    /\ ChainHasCursors
    /\ Len(log) = 3
    /\ log[2].cursor # log[3].cursor
    /\ \A k \in DOMAIN log : ~NoResults(log[k].body)

\* C8: the total returned is the smallest integer >= the exact sum of all
\* amounts: one ceiling of the final sum, no truncation, no rounding to
\* nearest, no rounding of a per-amount or per-page intermediate.
C8_TotalIsCeilingOfExactSum ==
    aggResult # <<>> =>
        /\ aggResult[1] * Scale >= LogSum(log)
        /\ (aggResult[1] - 1) * Scale < LogSum(log)

C8_Witness ==
    /\ aggResult # <<>>
    /\ Len(log) >= 2
    /\ LogSum(log) > 0
    /\ LogSum(log) % Scale # 0
    /\ PerPageCeilings(log) # aggResult[1]

\* C9: a cost report without any result gives the total 0; and whenever the
\* total is 0 fetch_expense returns none, having acquired or written no
\* receipt and built no ExpenseData, so no plugin returns a zero amount.
C9_ZeroTotalMeansNoExpense ==
    /\ (aggResult # <<>> /\ \A k \in DOMAIN log : NoResults(log[k].body))
          => aggResult = <<0>>
    /\ aggResult = <<0>> =>
          /\ fpc = "returned"
          /\ expense = <<>>
          /\ error = ""
          /\ ~placeholderWritten
          /\ downloads = 0
    /\ expense # <<>> => expense[1].amount # 0

C9_Witness ==
    /\ aggResult = <<0>>
    /\ fpc = "returned"
    /\ dry_run
    /\ Len(log) >= 2
    /\ \A k \in DOMAIN log : NoResults(log[k].body)

\* C10: one _fetch_total_cost call makes at most 3 attempts: a failed attempt
\* is followed by another only while fewer than 3 were made, a success on
\* attempt k <= 3 ends the call with that attempt's total, and the third
\* failure ends the call with an error and no total.
C10_AtMostThreeAttempts ==
    /\ attempt <= 3
    /\ failures <= 3
    /\ fpc = "backoff" => (attempt < 3 /\ failures = attempt)
    /\ fpc = "get" => failures = attempt - 1
    /\ aggResult # <<>> =>
          /\ failures = attempt - 1
          /\ aggResult[1] = Ceil(LogSum(log))
    /\ error = "RetryError" <=> (failures = 3 /\ attempt = 3)
    /\ error = "RetryError" => (fpc = "raised" /\ aggResult = <<>> /\ expense = <<>>)

C10_Witness ==
    /\ fpc = "raised"
    /\ error = "RetryError"
    /\ failures = 3

\* C11: after a failed request the next attempt starts from the first page,
\* without a cursor and with a running total of zero; the running total is at
\* every moment the sum over the pages answered in the current attempt alone,
\* so the total returned is the sum over the pages of the one successful
\* attempt and holds nothing read by an attempt that failed.
C11_FailedAttemptLeavesNoTrace ==
    /\ (fpc = "get" /\ log = <<>>) => (page = NoCursor /\ total = 0)
    /\ log # <<>> => log[1].cursor = NoCursor
    /\ fpc \in {"get", "backoff"} => total = LogSum(log)
    /\ aggResult # <<>> =>
          /\ aggResult[1] = Ceil(LogSum(log))
          /\ \A k \in 1..(Len(log) - 1) : log[k].has_more
          /\ ~log[Len(log)].has_more

\* a third attempt succeeds over two pages with a non-zero sum after the two
\* attempts before it had pages answered and then failed
C11_Witness ==
    /\ aggResult # <<>>
    /\ failures = 2
    /\ gets - failures - Len(log) >= 2
    /\ Len(log) = 2
    /\ LogSum(log) # 0

\* ------------------------------------------ claims on the submission client

\* the POST was answered with HTTP success and an envelope whose embedded
\* responseCode is >= 400
Refused(p) ==
    /\ p.response.kind = "ok"
    /\ p.response.body.form = "object"
    /\ p.response.body.responseCode >= 400

Carries(err, msg) == \E k \in DOMAIN err.message : err.message[k] = msg

NumSent(cmd) == Cardinality({i \in DOMAIN posts : posts[i].cmd = cmd})

Submitting == entry = "submit_expense" /\ cpc # "idle"

\* C12: when the create call of submit_expense is answered with HTTP success
\* and a responseCode >= 400, submit_expense raises an error whose message
\* contains the envelope's responseMessage, and no upload is attempted: one
\* acquire() call, one admission and one POST in all.
C12_RefusedCreateEndsTheSubmission ==
    (Submitting /\ posts # <<>> /\ Refused(posts[1])) =>
        /\ cpc = "raised"
        /\ cerror.type = "RuntimeError"
        /\ Carries(cerror, posts[1].response.body.responseMessage)
        /\ Len(posts) = 1
        /\ posts[1].cmd = "create"
        /\ Made = 1
        /\ Len(admitted) = 1
        /\ createResult = <<>>
        /\ receiptResult = <<>>
        /\ result = <<>>

\* the refused envelope even holds a transaction id, and the receipt exists
C12_Witness ==
    /\ Submitting
    /\ receiptExists
    /\ posts # <<>>
    /\ Refused(posts[1])
    /\ posts[1].response.body.transactionList = <<"txn_456">>
    /\ posts[1].response.body.responseMessage = "Invalid credentials"
    /\ cpc = "raised"

\* C13: every POST of the client, create or upload, that is answered with
\* HTTP success and a responseCode >= 400 makes the call raise an error that
\* carries the responseMessage; it is the last POST and nothing is returned.
C13_EveryRefusalIsRaised ==
    \A i \in DOMAIN posts :
        Refused(posts[i]) =>
            /\ cpc = "raised"
            /\ Carries(cerror, posts[i].response.body.responseMessage)
            /\ i = Len(posts)
            /\ result = <<>>

\* C14: when the create response has a transaction id in the first entry of
\* its transactionList and the receipt exists, submit_expense goes on to
\* upload_receipt; once it has returned it has sent one upload, after the
\* create, with that id, and its result holds that id, the create result and
\* the upload's result under the keys transaction_id, create and receipt.
C14_FullFlowUploadsOnce ==
    (/\ Submitting
     /\ createResult # <<>>
     /\ createResult[1].transactionList # <<>>
     /\ createResult[1].transactionList[1] # NoId
     /\ receiptExists) =>
        /\ cpc \in {"upload", "returned", "raised"}
        /\ transaction_id = createResult[1].transactionList[1]
        /\ argId = transaction_id
        /\ NumSent("upload") <= 1
        /\ cpc = "raised" => (Len(posts) = 2 /\ posts[2].response.kind # "ok")
        /\ cpc = "returned" =>
              /\ Len(posts) = 2
              /\ posts[1].cmd = "create"
              /\ posts[2].cmd = "upload"
              /\ posts[2].transactionID = createResult[1].transactionList[1]
              /\ DOMAIN result[1] = {"create", "receipt", "transaction_id"}
              /\ result[1].transaction_id = createResult[1].transactionList[1]
              /\ result[1].create = createResult[1]
              /\ result[1].receipt = receiptResult
              /\ receiptResult # <<>>

C14_Witness ==
    /\ Submitting
    /\ cpc = "returned"
    /\ createResult # <<>>
    /\ createResult[1].transactionList = <<"txn_789", "txn_456">>
    /\ Len(posts) = 2
    /\ result[1].transaction_id = "txn_789"
    /\ result[1].receipt # <<>>

\* the POST failed: a transport error, a non-2xx status, or HTTP success
\* with a responseCode >= 400
FailedPost(p) == p.response.kind # "ok" \/ Refused(p)

\* one submit_expense call sends one create, first, and at most one upload,
\* and a POST that failed in transport or a refused create is the last one
C15_NoRequestIsResent ==
    Submitting =>
        /\ NumSent("create") <= 1
        /\ NumSent("upload") <= 1
        /\ posts # <<>> => posts[1].cmd = "create"
        /\ cpc \in {"returned", "raised"} => NumSent("create") = 1
        /\ \A i \in DOMAIN posts : FailedPost(posts[i]) => i = Len(posts)

\* C15: one submit_expense call sends exactly one create request and at most
\* one upload request whatever the outcome, and a create or an upload that
\* fails, in transport or with an application error, makes submit_expense
\* raise at once and is never sent again.
C15_OneCreateAndFailuresSurface ==
    /\ C15_NoRequestIsResent
    /\ Submitting =>
          \A i \in DOMAIN posts : FailedPost(posts[i]) => cpc = "raised"

\* the create response holds no transaction: it is plain text, not an
\* object, or an object whose transactionList is absent or empty
NoTransaction(body) ==
    \/ body.form \in {"text", "array"}
    \/ ~body.hasList
    \/ body.transactionList = <<>>

\* C16: the transaction id is the one of the first entry of the create
\* response's transactionList; when the list is absent or empty, or the
\* response is plain text or not an object, the id is none, no upload and no
\* second admission are made, and submit_expense returns with transaction id
\* none and receipt none.
C16_NoTransactionNoUpload ==
    (Submitting /\ createResult # <<>>) =>
        /\ (~NoTransaction(posts[1].response.body)) =>
              transaction_id = posts[1].response.body.transactionList[1]
        /\ NoTransaction(posts[1].response.body) =>
              /\ transaction_id = NoId
              /\ cpc = "returned"
              /\ cerror = NoError
              /\ result[1].transaction_id = NoId
              /\ result[1].receipt = <<>>
              /\ Len(posts) = 1
              /\ Made = 1
              /\ Len(admitted) = 1

\* a plain-text answer to the create of an expense whose receipt exists
C16_Witness ==
    /\ Submitting
    /\ receiptExists
    /\ cpc = "returned"
    /\ posts[1].response.body.form = "text"
    /\ result[1].transaction_id = NoId

\* C17: every POST is sent after an acquire() call of its own on the
\* client's limiter has returned: the k-th POST follows the k-th admission,
\* the admissions of create and upload are recorded in the same timestamps,
\* and acquire() is called for the upload only once the create has returned.
C17_EveryPostHasItsOwnAdmission ==
    /\ \A i \in DOMAIN posts :
          /\ posts[i].by = i
          /\ posts[i].admissions = i
          /\ pc[i] = "done"
          /\ admitted[i].by = i
    /\ Len(posts) <= Len(admitted)
    /\ Len(admitted) = Len(timestamps)
    /\ \A i \in DOMAIN admitted : admitted[i].t = timestamps[i]
    /\ Made <= 2
    /\ (entry = "submit_expense" /\ Made = 2) =>
          (createResult # <<>> /\ posts # <<>> /\ posts[1].cmd = "create")
    /\ \A c \in Callers : pc[c] \notin {"sleeping", "raised", "queued"}

\* both POSTs of a submission are out, admitted at different clock readings
C17_Witness ==
    /\ entry = "submit_expense"
    /\ Len(posts) = 2
    /\ posts[2].cmd = "upload"
    /\ Len(timestamps) = 2
    /\ timestamps[1] < timestamps[2]

\* C18: upload_receipt for a receipt file that does not exist raises
\* FileNotFoundError, which is neither the application error nor a transport
\* error, before anything else: no acquire() call, no admission, no POST.
C18_MissingReceiptFailsFirst ==
    (entry = "upload_receipt" /\ ~receiptExists /\ cpc # "idle") =>
        /\ cpc = "raised"
        /\ cerror.type = "FileNotFoundError"
        /\ cerror.type \notin {"RuntimeError", "TransportError", "HTTPStatusError"}
        /\ posts = <<>>
        /\ Made = 0
        /\ admitted = <<>>
        /\ timestamps = <<>>

C18_Witness ==
    /\ entry = "upload_receipt"
    /\ ~receiptExists
    /\ cpc = "raised"
    /\ clock > 0

\* ------------------------------------------------ claims on the orchestrator

RunOver == rpc \in {"exited", "aborted"}

AllRegistered == \A i \in DOMAIN selected : Registered(selected[i])

\* C19: a run appends one result record per selected plugin, in selection
\* order: never more records than plugins, the i-th record is the i-th
\* plugin's, and when the run is over every selected plugin has its record
\* (so the plugins after one that failed were still processed).  Stated for
\* selections of registered plugins only: the lookup of a name that is not
\* registered ends the run by design.
C19_OneRecordPerSelectedPlugin ==
    AllRegistered =>
        /\ Len(results) <= Len(selected)
        /\ \A i \in DOMAIN results : results[i].plugin = selected[i]
        /\ RunOver => Len(results) = Len(selected)

\* a record is never changed or removed once appended
C19_RecordsAreNeverChanged ==
    [][/\ Len(results') >= Len(results)
       /\ \A i \in DOMAIN results : results'[i] = results[i]]_vars

\* C20: for every plugin that get_plugin has instantiated, cleanup() is
\* invoked exactly once, after the plugin's record has been appended and
\* before the next plugin is looked up, whether the record is a success, a
\* skip or an error; it is invoked for no other index.
C20_CleanupOncePerPlugin ==
    /\ \A i \in 1..NumPlugins :
          /\ cleanups[i] <= 1
          /\ cleanups[i] = 1 => (i \in instantiated /\ Len(results) >= i)
          /\ (i \in instantiated /\ (idx > i \/ rpc = "exited")) => cleanups[i] = 1
          /\ (i \in instantiated /\ Len(results) >= i) => cleanups[i] = 1
    /\ rpc \in {"fetch", "submit"} =>
          /\ cleanups[idx] = 0
          /\ Len(results) = idx - 1
          /\ \A j \in 1..(idx - 1) : cleanups[j] = 1
    /\ rpc = "cleanup" => (cleanups[idx] = 1 /\ Len(results) = idx)

\* a run over two plugins, the first skipped and the second failed
C20_Witness ==
    /\ rpc = "exited"
    /\ Len(results) = 2
    /\ results[1].status = "skipped"
    /\ results[2].status = "error"
    /\ cleanups[1] = 1
    /\ cleanups[2] = 1

HasErrorRecord == \E k \in DOMAIN results : results[k].status = "error"

\* C21: a run that is over has ended with a failure exit status if and only
\* if one of its result records has status error.
C21_FailureExitIffErrorRecord ==
    RunOver => (exitStatus # "success" <=> HasErrorRecord)

\* a run that selected something and reached its summary exits with failure
\* exactly when it has an error record
C21_SummaryExitReflectsErrors ==
    (rpc = "exited" /\ selected # <<>>) =>
        /\ exitStatus \in {"success", "failure"}
        /\ exitStatus = "failure" <=> HasErrorRecord

\* C22: no failure below the orchestrator ends the run: with every selected
\* plugin registered, the run is never left by an exception, whatever
\* fetch_expense, the submission client, its close() or cleanup() raise.
C22_NothingAbortsTheRun ==
    AllRegistered => rpc # "aborted"

\* C23: the record fetch_expense returned is handed to submit_expense once
\* when the run is not a dry run, and never when it is a dry run or when
\* fetch_expense returned none; a dry run creates no client, records no
\* admission and sends no POST, and still records success with the amount
\* and the currency.
C23_SubmittedOnceUnlessDryRun ==
    /\ \A i \in 1..NumPlugins :
          /\ submits[i] <= 1
          /\ run_dry => submits[i] = 0
          /\ i > idx => submits[i] = 0
          /\ i \in DOMAIN results =>
                /\ results[i].status = "skipped" => submits[i] = 0
                /\ (results[i].status = "success" /\ ~run_dry) => submits[i] = 1
                /\ results[i].status = "success" =>
                      /\ results[i].amount # <<>>
                      /\ results[i].amount[1] \in Amounts
                      /\ results[i].currency = Currency(selected[i])
    /\ rpc = "submit" =>
          /\ submits[idx] = 1
          /\ fetched # <<>>
          /\ fetched[1].kind = "expense"
          /\ receiptExists = fetched[1].receipt
    /\ run_dry =>
          /\ rpc # "submit"
          /\ cpc = "idle"
          /\ Made = 0
          /\ posts = <<>>
          /\ admitted = <<>>
          /\ timestamps = <<>>

\* a dry run over two plugins that both returned a record
C23_Witness ==
    /\ run_dry
    /\ rpc = "exited"
    /\ Len(results) = 2
    /\ results[1].status = "success"
    /\ results[2].status = "success"
    /\ results[1].amount # results[2].amount

\* C24: the plugins of a run are processed one after the other: the fetch of
\* a plugin starts only when every plugin before it has its record and has
\* been cleaned up and no submission is in progress; a submission runs only
\* before its plugin's record and cleanup; a cleanup runs only after the
\* record is appended and the client is gone; no later plugin is touched.
C24_PluginsRunOneAfterAnother ==
    /\ idx <= Len(selected)
    /\ instantiated \subseteq 1..idx
    /\ \A j \in 1..NumPlugins : j > idx => (cleanups[j] = 0 /\ submits[j] = 0)
    /\ rpc \in {"fetch", "submit", "cleanup"} => instantiated = 1..idx
    /\ rpc = "fetch" =>
          /\ Len(results) = idx - 1
          /\ \A j \in 1..(idx - 1) : cleanups[j] = 1
          /\ cleanups[idx] = 0
          /\ submits[idx] = 0
          /\ fetched = <<>>
          /\ cpc = "idle"
          /\ Made = 0
          /\ posts = <<>>
    /\ rpc = "submit" =>
          /\ Len(results) = idx - 1
          /\ \A j \in 1..(idx - 1) : cleanups[j] = 1
          /\ cleanups[idx] = 0
          /\ cpc # "idle"
    /\ rpc = "cleanup" =>
          /\ Len(results) = idx
          /\ cleanups[idx] = 1
          /\ cpc = "idle"
          /\ Made = 0

\* the second plugin's fetch is running after the first was submitted
C24_Witness ==
    /\ rpc = "fetch"
    /\ idx = 2
    /\ ~run_dry
    /\ submits[1] = 1
    /\ results[1].status = "success"

\* ---------------------------------------------- claims on the billing window

\* the calendar order of two dates
DateBefore(a, b) ==
    \/ a.year < b.year
    \/ a.year = b.year /\ a.month < b.month
    \/ a.year = b.year /\ a.month = b.month /\ a.day < b.day

\* C25: for every year and month 1..12 the window passed to the aggregator
\* starts on the first day of (year, month) and ends on the first day of the
\* following month, 1 January of year + 1 after December; the end is later
\* than the start, and the record's billing date is the start.
C25_WindowIsTheCalendarMonth ==
    wpc \in {"called", "done"} =>
        /\ start_date = <<[year |-> year, month |-> month, day |-> 1]>>
        /\ end_date # <<>>
        /\ end_date[1].day = 1
        /\ end_date[1].month \in 1..12
        /\ month < 12 =>
              (end_date[1].year = year /\ end_date[1].month = month + 1)
        /\ month = 12 =>
              (end_date[1].year = year + 1 /\ end_date[1].month = 1)
        /\ DateBefore(start_date[1], end_date[1])
        /\ date # <<>> => date[1] = start_date[1]

\* a December call that returned a record
C25_Witness ==
    /\ wpc = "done"
    /\ month = 12
    /\ date # <<>>
    /\ end_date[1].year = year + 1

\* --------------------------------------- claims on validate_credentials

\* C26: validate_credentials sends one GET and always returns a boolean: true
\* exactly when the vendor answered 200, false for every other status and
\* for every transport error; it never raises.
C26_ValidIffStatus200 ==
    /\ vpc # "raised"
    /\ Len(requests) <= 1
    /\ \A k \in DOMAIN requests : requests[k].method = "GET"
    /\ vpc = "called" => Len(requests) = 1
    /\ vpc = "returned" =>
          /\ Len(requests) = 1
          /\ valid \in {<<TRUE>>, <<FALSE>>}
          /\ valid[1] <=>
                (answer[1].kind = "response" /\ answer[1].status_code = 200)

\* the vendor refused the key with 401
C26_Witness ==
    /\ vpc = "returned"
    /\ answer[1].kind = "response"
    /\ answer[1].status_code = 401
    /\ valid = <<FALSE>>

\* ------------------------------------------- claims on the receipt document

\* fetch_expense has returned a record in a dry run
DryRunRecord == dry_run /\ fpc = "returned" /\ expense # <<>>

\* what every call keeps about the download and the stand-in document
AcquiredAsAsked ==
    /\ dry_run => downloads = 0
    /\ DryRunRecord =>
          (placeholderWritten /\ expense[1].receipt = "placeholder")
    /\ ~dry_run =>
          /\ ~placeholderWritten
          /\ downloads <= 1
          /\ fpc \in {"start", "get", "backoff", "extract"} => downloads = 0
          /\ fpc = "returned" => (downloads = 1 <=> expense # <<>>)
          /\ expense # <<>> => expense[1].receipt = "downloaded"
          /\ error = "DownloadError" => downloads = 1

C28_AmountIsNeverNegative ==
    expense # <<>> => expense[1].amount >= 0

\* ------------------------------------------------- claims on the two windows

\* the recorded timestamps that lie in the short window
RecordedInShort == {k \in DOMAIN timestamps : timestamps[k] >= clock - short_window}

\* C29: every RateLimiter has long_window >= short_window, so that every
\* admission of the last short_window seconds is still recorded when the
\* short-window count is taken.
C29_LongWindowCoversShortWindow ==
    /\ long_window >= short_window
    /\ Cardinality(RecordedInShort) = Cardinality(AdmittedSince(short_window))

\* with long_window >= short_window no admission of the short window is lost
C29_CoveredWhenLongIsLonger ==
    long_window >= short_window =>
        Cardinality(RecordedInShort) = Cardinality(AdmittedSince(short_window))

\* the timestamps of ts that are not older than now - long_window
NotExpired(ts, now) == SelectSeq(ts, LAMBDA t : t >= now - long_window)

\* C30: an evaluation at time now removes exactly the timestamps older than
\* now - long_window, and adds at most its own; when it admits, no recorded
\* timestamp is older than now - long_window; and an evaluation that comes
\* more than long_window after every earlier admission admits on the spot and
\* leaves only its own timestamp.
C30_PruneRemovesExactlyTheExpired ==
    [][\A c \in Callers :
          (pc[c] = "eval" /\ pc'[c] # "eval") =>
              LET kept == NotExpired(timestamps, clock)
              IN  /\ timestamps' \in {kept, Append(kept, clock)}
                  /\ pc'[c] = "done" =>
                        /\ timestamps' = Append(kept, clock)
                        /\ \A k \in DOMAIN timestamps' :
                              timestamps'[k] >= clock - long_window
                  /\ (/\ admitted # <<>>
                      /\ \A i \in DOMAIN admitted :
                            admitted[i].t < clock - long_window)
                        => (pc'[c] = "done" /\ timestamps' = <<clock>>)]_vars

\* a call admitted more than long_window after the one before it, whose
\* timestamp is the only one left
C30_Witness ==
    /\ Len(admitted) >= 2
    /\ admitted[Len(admitted)].t = clock
    /\ \A i \in 1..(Len(admitted) - 1) : admitted[i].t < clock - long_window
    /\ timestamps = <<clock>>

\* --------------------------------------------------- claims on the backoff

\* C31: the delay after the n-th failed attempt is min(10, max(1, 2^(n-1)))
\* seconds, 1 s after the first failure and 2 s after the second; no delay
\* is below 1 s or above 10 s, none is shorter than the one before it, and
\* none follows the last failed attempt.
C31_BackoffIsClampedExponential ==
    /\ \A n \in DOMAIN delays :
          /\ delays[n] >= 1
          /\ delays[n] <= 10
          /\ n = 1 => delays[n] = 1
          /\ n = 2 => delays[n] = 2
          /\ n > 1 => delays[n] >= delays[n - 1]
    /\ Len(delays) <= 2
    /\ fpc = "backoff" => Len(delays) = failures
    /\ fpc = "get" => Len(delays) = failures
    /\ error = "RetryError" => (failures = 3 /\ Len(delays) = 2)
    /\ aggResult # <<>> => Len(delays) = failures

\* the call gave up after its third failure, having slept twice
C31_Witness ==
    /\ fpc = "raised"
    /\ error = "RetryError"
    /\ delays = <<1, 2>>

\* ------------------------------------------- claims on the unit conversion

\* the amounts of every page of the attempt added up as the vendor sent them,
\* in units of 1/Scale
RECURSIVE RawSum(_)
RawSum(entries) ==
    IF entries = <<>> THEN 0
    ELSE BodySum(Head(entries).body) + RawSum(Tail(entries))

\* the smallest integer >= x / Scale
CeilingOf(x) == CHOOSE n \in (x \div Scale)..(x \div Scale + 1) :
                    n * Scale >= x /\ (n - 1) * Scale < x

\* the test suite's single page with the values 50.25 and 10.75
TestPage ==
    /\ Len(log) = 1
    /\ log[1].body = << <<50250, 10750>> >>

\* C32: the Anthropic aggregator returns the ceiling of the sum of the
\* amounts as they are, the OpenAI aggregator the ceiling of 100 times the
\* sum of the values; the values 50.25 and 10.75 give 6100.
C32_UnitConversionPerVendor ==
    aggResult # <<>> =>
        /\ vendor = "anthropic" => aggResult[1] = CeilingOf(RawSum(log))
        /\ vendor = "openai" => aggResult[1] = CeilingOf(100 * RawSum(log))
        /\ (vendor = "openai" /\ TestPage) => aggResult[1] = 6100
        /\ (vendor = "anthropic" /\ TestPage) => aggResult[1] = 61

\* OpenAI answered the test suite's page
C32_Witness ==
    /\ vendor = "openai"
    /\ aggResult = <<6100>>
    /\ TestPage
    /\ failures = 0

\* ------------------------------------------- claims on the timestamp record

Ordered(ts) == \A k \in 1..(Len(ts) - 1) : ts[k] <= ts[k + 1]

Returned == {c \in Callers : pc[c] = "done"}

\* C33: the recorded timestamps are always in non-decreasing order; an
\* acquire() that returns has appended exactly one timestamp, the `now` of
\* the evaluation that admitted it; an evaluation that has to wait (or that
\* raises) appends nothing; and nothing else ever adds a timestamp.
C33_OrderedOneTimestampPerAdmission ==
    /\ [](Ordered(timestamps) /\ Cardinality(Returned) = Len(admitted))
    /\ [][\A c \in Callers :
             (pc[c] = "eval" /\ pc'[c] # "eval") =>
                 /\ pc'[c] = "done" =>
                       /\ Len(timestamps') = Len(NotExpired(timestamps, clock)) + 1
                       /\ timestamps'[Len(timestamps')] = clock
                       /\ \A k \in 1..(Len(timestamps') - 1) :
                             timestamps'[k] = NotExpired(timestamps, clock)[k]
                       /\ Len(admitted') = Len(admitted) + 1
                       /\ admitted'[Len(admitted')].t = clock
                 /\ pc'[c] # "done" =>
                       /\ timestamps' = NotExpired(timestamps, clock)
                       /\ admitted' = admitted]_vars
    /\ [][(\A c \in Callers : pc[c] = "eval" => pc'[c] = "eval") =>
             Len(timestamps') = Len(timestamps)]_vars

\* two timestamps of different readings are recorded, the later one by a
\* caller that had to wait
C33_Witness ==
    /\ Len(timestamps) >= 2
    /\ timestamps[1] < timestamps[2]
    /\ \E c \in Returned : waited[c]

\* ------------------------------------------- claims on waiting in the section

\* the caller has started to wait for quota and is not yet admitted
Waiting(c) == pc[c] = "sleeping" \/ (pc[c] = "eval" /\ waited[c])

\* C34: the section is held for the whole wait: while a caller waits for
\* quota it holds the lock and no other caller evaluates or sleeps; from the
\* start of its wait to its own admission no admission but its own is
\* recorded and the timestamp sequence gains no entry but its own; and the
\* callers are admitted in the order in which they obtained the section,
\* which is the order of their calls.
C34_SectionHeldWhileWaiting ==
    /\ [](\A c \in Callers :
             Waiting(c) =>
                 /\ lockHolder = c
                 /\ \A d \in Callers \ {c} : pc[d] \notin {"eval", "sleeping"})
    /\ [](\A i, j \in DOMAIN admitted :
             i < j => admitted[i].by < admitted[j].by)
    /\ [][\A c \in Callers :
             Waiting(c) =>
                 /\ pc'[c] # "done" =>
                       /\ Len(admitted') = Len(admitted)
                       /\ Len(timestamps') <= Len(timestamps)
                 /\ pc'[c] = "done" =>
                       /\ Len(admitted') = Len(admitted) + 1
                       /\ admitted'[Len(admitted')].by = c
                       /\ Len(timestamps') <= Len(timestamps) + 1]_vars

\* every caller was admitted, the first without a wait and a later one after
\* a wait during which another caller was queued behind it
C34_Witness ==
    /\ Len(admitted) = NumCalls
    /\ ~waited[1]
    /\ \E c \in Callers : c < NumCalls /\ waited[c] /\ pc[c] = "done"

\* ------------------------------------------------- claims on what is retried

\* C35: a failure of an attempt, whatever its kind (network error, non-2xx
\* status, unparsable body or malformed amount), is followed by a new attempt
\* when fewer than 3 attempts were made, after the same backoff; no failure
\* of an attempt ends the call before the third attempt.
C35_EveryFailureIsRetried ==
    /\ cause # "" =>
          /\ cause \in Failures
          /\ fpc \in {"backoff", "raised"}
          /\ fpc = "backoff" <=> failures < 3
          /\ fpc = "raised" <=> failures = 3
    /\ fpc = "backoff" =>
          /\ cause # ""
          /\ attempt = failures
          /\ Len(delays) = failures
          /\ delays[failures] = IF failures = 1 THEN 1 ELSE 2
    /\ (fpc = "raised" /\ downloads = 0 /\ sessions = 0) =>
          (error = "RetryError" /\ failures = 3 /\ cause # "")

\* a malformed response failed the second attempt, which had already read a
\* page, and the call waits for its third attempt
C35_Witness ==
    /\ fpc = "backoff"
    /\ cause = "malformed"
    /\ failures = 2
    /\ log # <<>>

\* ------------------------------------------------- claims on the page cursor

\* C36: within one attempt no two requests carry the same cursor, and the
\* first page (no cursor) is requested once, whatever the vendor answers, a
\* has_more without next_page included; so no page is added to the total
\* twice.
C36_NoCursorIsRequestedTwice ==
    \A i, j \in DOMAIN log : i # j => log[i].cursor # log[j].cursor

\* what does hold: when every has_more response supplies a cursor that was
\* not requested before, no cursor is requested twice
C36_DistinctWhenVendorAdvances ==
    (/\ ChainHasCursors
     /\ \A i, j \in DOMAIN log :
           (i < j /\ log[j].has_more) => log[j].next_page # log[i].next_page)
        => \A i, j \in DOMAIN log : i # j => log[i].cursor # log[j].cursor

\* ------------------------------------------- claims on the quota of a run

\* the POSTs the run has sent so far: those of the clients already closed and
\* those of the client in use.  The clock of a run does not advance, so all
\* of them lie in one short window.
SentByRun == sentBefore + Len(posts)

\* C37: all backend calls of a run, for all its plugins, are admitted
\* against one limiter state (so that the quota holds across plugins).
C37_OneLimiterForTheRun == limiters <= 1

\* what does hold: every submission has its own client and limiter, which
\* admits at most two POSTs and so never fills a quota; the POSTs of a run
\* are bounded by twice the number of its submissions only, all of them
\* possibly within one short window
C37_OneLimiterPerClient ==
    /\ limiters <= NumPlugins
    /\ \A i \in 1..NumPlugins : submits[i] <= 1
    /\ Len(posts) <= 2
    /\ Len(admitted) <= 2
    /\ SentByRun <= 2 * limiters
    /\ \A c \in Callers : ~waited[c]

\* ------------------------------------------ claims on the missing receipt

\* the create returned a transaction id and the record's receipt is missing
IdWithoutReceipt ==
    /\ Submitting
    /\ createResult # <<>>
    /\ createResult[1].transactionList # <<>>
    /\ createResult[1].transactionList[1] # NoId
    /\ ~receiptExists

\* C38: when the create call gave a transaction id and the receipt document
\* does not exist, the create stands, upload_receipt is not called (no
\* second acquire(), no admission, no upload POST) and submit_expense
\* returns, without an error, the id, the create result and receipt none.
C38_MissingReceiptSkipsTheUpload ==
    IdWithoutReceipt =>
        /\ cpc = "returned"
        /\ cerror = NoError
        /\ Len(posts) = 1
        /\ posts[1].cmd = "create"
        /\ NumSent("upload") = 0
        /\ Made = 1
        /\ Len(admitted) = 1
        /\ argId = NoId
        /\ receiptResult = <<>>
        /\ result # <<>>
        /\ result[1].receipt = <<>>
        /\ result[1].create = createResult[1]
        /\ result[1].transaction_id = createResult[1].transactionList[1]

\* the create of an expense without a receipt file returned the id txn_789
C38_Witness ==
    /\ IdWithoutReceipt
    /\ cpc = "returned"
    /\ result[1].transaction_id = "txn_789"
    /\ Len(posts) = 1

====
